---- MODULE Spec2Model ----
(***************************************************************************)
(* Model of telethon/client/chats.py: the chat-action controller           *)
(* (_ChatAction and ChatMethods.action), the participants enumeration      *)
(* (_ParticipantsIter) and the audit-log enumeration (_AdminLogIter), both *)
(* driven by RequestIter.                                                  *)
(***************************************************************************)
EXTENDS Integers, Sequences, FiniteSets, TLC

\* ------------------------------------------------------------------------
\* Bounds
\* ------------------------------------------------------------------------
MaxTime == 4
ShareTime == 1
MaxDelay == 2
MaxLatency == 2
MaxHold == 4
MaxTotal == 2
MaxReports == 1

Ctls == {1, 2}

\* ------------------------------------------------------------------------
\* Action kinds and the tag table
\* ------------------------------------------------------------------------
NoProgress == -1

UploadKinds ==
    {"UploadAudio", "UploadRound", "UploadVideo", "UploadPhoto", "UploadDocument"}

\* hasattr(action, 'progress')
HasProgress(kind) == kind \in UploadKinds

Tags ==
    {"typing", "contact", "game", "location",
     "record-audio", "record-voice", "record-round", "record-video",
     "audio", "voice", "round", "video",
     "photo", "document", "file", "song", "cancel"}

\* kind of the instance stored under each key of _str_mapping
str_mapping_kind ==
    [t \in Tags |->
        CASE t = "typing" -> "Typing"
          [] t = "contact" -> "ChooseContact"
          [] t = "game" -> "GamePlay"
          [] t = "location" -> "GeoLocation"
          [] t = "record-audio" -> "RecordAudio"
          [] t = "record-voice" -> "RecordAudio"
          [] t = "record-round" -> "RecordRound"
          [] t = "record-video" -> "RecordVideo"
          [] t = "audio" -> "UploadAudio"
          [] t = "voice" -> "UploadAudio"
          [] t = "round" -> "UploadRound"
          [] t = "video" -> "UploadVideo"
          [] t = "photo" -> "UploadPhoto"
          [] t = "document" -> "UploadDocument"
          [] t = "file" -> "UploadDocument"
          [] t = "song" -> "UploadDocument"
          [] t = "cancel" -> "Cancel"]

\* constructor argument of the instance stored under each key
str_mapping_progress ==
    [t \in Tags |-> IF HasProgress(str_mapping_kind[t]) THEN 1 ELSE NoProgress]

\* Objects that can serve as action descriptor: the instances held by the
\* class-level table (one per key) and instances built by the caller.
RawObjs == {"raw1", "raw2"}
ObjIds == Tags \cup RawObjs
RawObjOf(c) == IF c = 1 THEN "raw1" ELSE "raw2"

\* str.lower() on the strings the model passes as tags
StrInputs == {"typing", "TYPING", "record-audio", "document", "Document",
              "file", "cancel", "typo"}

lower(s) ==
    CASE s = "TYPING" -> "typing"
      [] s = "Document" -> "document"
      [] OTHER -> s

\* Values passed as the `action` argument.
\*   py = "str":      a string
\*   py = "type":     a class (of the action family or not)
\*   py = "tlobject": a TLObject instance; family tells SUBCLASS_OF_ID
\*   py = "object":   any other object
ActionArgs ==
    [py : {"str"}, val : StrInputs, family : {"none"}]
    \cup [py : {"type"}, val : {"UploadPhoto"}, family : {"SendMessageAction"}]
    \cup [py : {"tlobject"}, val : {"UploadPhoto", "Typing", "Cancel"},
          family : {"SendMessageAction"}]
    \cup [py : {"tlobject"}, val : {"InputPeerUser"}, family : {"InputPeer"}]
    \cup [py : {"object"}, val : {"42"}, family : {"none"}]

\* References passed as `entity`, and get_input_entity
Entities == {"chat", "nobody"}
Resolvable(e) == e = "chat"
get_input_entity(e) == IF e = "chat" THEN "peer_chat" ELSE "unresolved"

\* ------------------------------------------------------------------------
\* Python's round() of the quotient n / d (round half to even), d > 0
\* ------------------------------------------------------------------------
PyRound(n, d) ==
    LET q == n \div d
        r == n % d
    IN  IF 2 * r < d THEN q
        ELSE IF 2 * r > d THEN q + 1
        ELSE IF q % 2 = 0 THEN q ELSE q + 1

\* value stored by _ChatAction.progress
ProgressValue(current, total) == 100 * PyRound(current, total)

VARIABLES
    ctl,    \* per controller: the scope owner's position and _ChatAction fields
    task,   \* per controller: the background task running _update
    objs,   \* progress field of every action descriptor object
    hist,   \* per controller: calls issued and scope events, in order
    now,    \* event-loop clock
    env,    \* arguments of iter_participants and the group they are run on
    it,     \* the _ParticipantsIter object
    wire,   \* requests the enumeration handed to the client, in order
    out     \* items the enumeration returned to its consumer, in order

vars == <<ctl, task, objs, hist, now, env, it, wire, out>>
ctlVars == <<ctl, task, objs, hist, now>>
iterVars == <<env, it, wire, out>>

NoCtl ==
    [pc |-> "idle", chat |-> "none", action |-> "none", kind |-> "none",
     delay |-> 0, auto_cancel |-> FALSE, running |-> FALSE, hasTask |-> FALSE,
     holdUntil |-> 0, enterAt |-> 0, exitAt |-> 0,
     given |-> [py |-> "none", val |-> "none", family |-> "none"]]

NoTask ==
    [tpc |-> "none", mustCancel |-> FALSE, result |-> "none", at |-> 0]

\* An entry of the observation log: a call handed to the client (periodic,
\* cancel, direct), its answer (resp_*), a progress report or a scope event.
Ev(e, kind, progress, peer, lat) ==
    [ev |-> e, kind |-> kind, progress |-> progress, peer |-> peer,
     lat |-> lat, current |-> 0, total |-> 0]

Mark(e) == Ev(e, "none", NoProgress, "none", 0)

Report(kind, progress, current, total) ==
    [ev |-> "progress", kind |-> kind, progress |-> progress, peer |-> "none",
     lat |-> 0, current |-> current, total |-> total]

Log(c, e) == hist' = [hist EXCEPT ![c] = Append(@, e)]

\* the controllers before any call of action()
InitCtl ==
    /\ ctl = [c \in Ctls |-> NoCtl]
    /\ task = [c \in Ctls |-> NoTask]
    /\ objs = [o \in ObjIds |->
                 IF o \in Tags THEN str_mapping_progress[o] ELSE NoProgress]
    /\ hist = [c \in Ctls |-> <<>>]
    /\ now = 0

NoEnv ==
    [kind |-> "none", n |-> 0, limit |-> [none |-> TRUE, n |-> 0],
     search |-> <<>>, filter |-> "none", aggressive |-> FALSE, page |-> 0]

\* the fields of ChannelAdminLogEventsFilter, lines 231-235
ServiceFlags ==
    {"join", "leave", "invite", "ban", "unban", "kick", "unkick", "promote",
     "demote", "info", "settings", "pinned", "edit", "delete"}

\* events_filter = None
NoEventsFilter == [built |-> FALSE, flags |-> [n \in ServiceFlags |-> "None"]]

\* no GetAdminLogRequest built yet
NoRequest ==
    [q |-> <<>>, min_id |-> 0, max_id |-> 0, limit |-> 0,
     events_filter |-> NoEventsFilter, admins |-> "None", built |-> FALSE]

NoIter ==
    [pc |-> "idle", limit |-> 0, left |-> 0, buffer |-> <<>>, index |-> 0,
     total |-> -1, requests |-> <<>>, seen |-> {}, hasPred |-> FALSE,
     search |-> <<>>, exhausted |-> FALSE, request |-> NoRequest]

InitAction ==
    /\ InitCtl
    /\ env = NoEnv
    /\ it = NoIter
    /\ wire = <<>>
    /\ out = <<>>

\* ------------------------------------------------------------------------
\* ChatMethods.action
\* ------------------------------------------------------------------------
\* variant: a class of the action family passes the test
ValidAction_class(arg) ==
    IF arg.py = "str"
    THEN lower(arg.val) \in Tags
    ELSE arg.family = "SendMessageAction"

\* the isinstance / SUBCLASS_OF_ID test on the argument
ValidAction(arg) ==
    IF arg.py = "str"
    THEN lower(arg.val) \in Tags
    ELSE arg.py = "tlobject" /\ arg.family = "SendMessageAction"

\* the descriptor object the controller will hold
ActionObj(c, arg) ==
    IF arg.py = "str" THEN lower(arg.val) ELSE RawObjOf(c)

ActionKind(arg) ==
    IF arg.py = "str" THEN str_mapping_kind[lower(arg.val)] ELSE arg.val

action(c, entity, arg, delay, auto_cancel) ==
    /\ ctl[c].pc = "idle"
    /\ IF ~ValidAction(arg)
       THEN \* ValueError
            /\ ctl' = [ctl EXCEPT ![c].pc = "rejected", ![c].given = arg]
            /\ UNCHANGED <<objs, hist>>
       ELSE IF ActionKind(arg) = "Cancel"
       THEN \* one SetTypingRequest, resolved and sent by the client itself
            /\ UNCHANGED objs
            /\ IF Resolvable(entity)
               THEN /\ ctl' = [ctl EXCEPT ![c].pc = "direct", ![c].given = arg]
                    /\ Log(c, Ev("direct", "Cancel", NoProgress,
                                 get_input_entity(entity), 0))
               ELSE /\ ctl' = [ctl EXCEPT ![c].pc = "direct_failed",
                                          ![c].given = arg]
                    /\ UNCHANGED hist
       ELSE /\ ctl' = [ctl EXCEPT ![c] =
                         [NoCtl EXCEPT !.pc = "created", !.chat = entity,
                                       !.action = ActionObj(c, arg),
                                       !.kind = ActionKind(arg),
                                       !.delay = delay,
                                       !.auto_cancel = auto_cancel,
                                       !.given = arg]]
            /\ objs' = IF arg.py = "str" THEN objs
                       ELSE [objs EXCEPT ![RawObjOf(c)] =
                               IF HasProgress(arg.val) THEN 1 ELSE NoProgress]
            /\ UNCHANGED hist
    /\ UNCHANGED <<task, now>>
    /\ UNCHANGED iterVars

\* ------------------------------------------------------------------------
\* _ChatAction
\* ------------------------------------------------------------------------
\* variant: the task is created before the chat is resolved
aenter_taskfirst(c) ==
    /\ ctl[c].pc = "created"
    /\ IF ~Resolvable(ctl[c].chat)
       THEN /\ ctl' = [ctl EXCEPT ![c].pc = "enterfail",
                                  ![c].running = TRUE,
                                  ![c].hasTask = TRUE]
            /\ task' = [task EXCEPT ![c] = [NoTask EXCEPT !.tpc = "pending"]]
            /\ UNCHANGED hist
       ELSE /\ ctl' = [ctl EXCEPT ![c].pc = "body",
                                  ![c].chat = get_input_entity(@),
                                  ![c].running = TRUE,
                                  ![c].hasTask = TRUE,
                                  ![c].enterAt = now]
            /\ task' = [task EXCEPT ![c] = [NoTask EXCEPT !.tpc = "pending"]]
            /\ Log(c, Mark("enter"))
    /\ UNCHANGED <<objs, now>>
    /\ UNCHANGED iterVars

aenter(c) ==
    /\ ctl[c].pc = "created"
    /\ IF ~Resolvable(ctl[c].chat)
       THEN \* get_input_entity raises; nothing else of __aenter__ runs
            /\ ctl' = [ctl EXCEPT ![c].pc = "enterfail"]
            /\ UNCHANGED <<task, hist>>
       ELSE /\ ctl' = [ctl EXCEPT ![c].pc = "body",
                                  ![c].chat = get_input_entity(@),
                                  ![c].running = TRUE,
                                  ![c].hasTask = TRUE,
                                  ![c].enterAt = now]
            /\ task' = [task EXCEPT ![c] = [NoTask EXCEPT !.tpc = "pending"]]
            /\ Log(c, Mark("enter"))
    /\ UNCHANGED <<objs, now>>
    /\ UNCHANGED iterVars

Reports(c) == Len(SelectSeq(hist[c], LAMBDA e : e.ev = "progress"))

progress(c, current, total) ==
    /\ ctl[c].pc = "body"
    /\ Reports(c) < MaxReports
    /\ objs' = IF HasProgress(ctl[c].kind)
               THEN [objs EXCEPT ![ctl[c].action] = ProgressValue(current, total)]
               ELSE objs
    /\ Log(c, Report(ctl[c].kind, objs'[ctl[c].action], current, total))
    /\ UNCHANGED <<ctl, task, now>>
    /\ UNCHANGED iterVars

\* the scope body awaits something that takes h ticks
hold(c, h) ==
    /\ ctl[c].pc = "body"
    /\ ctl' = [ctl EXCEPT ![c].pc = "holding", ![c].holdUntil = now + h]
    /\ UNCHANGED <<task, objs, hist, now>>
    /\ UNCHANGED iterVars

resume(c) ==
    /\ ctl[c].pc = "holding"
    /\ now >= ctl[c].holdUntil
    /\ task[c].tpc # "pending"     \* the task was scheduled first
    /\ ctl' = [ctl EXCEPT ![c].pc = "body", ![c].holdUntil = 0]
    /\ UNCHANGED <<task, objs, hist, now>>
    /\ UNCHANGED iterVars

\* variant: the task is left to notice `_running` by itself
aexit_nocancel(c) ==
    /\ ctl[c].pc = "body"
    /\ ctl' = [ctl EXCEPT ![c].pc = "exiting", ![c].running = FALSE,
                          ![c].exitAt = now]
    /\ Log(c, Mark("exit_begin"))
    /\ UNCHANGED <<task, objs, now>>
    /\ UNCHANGED iterVars

\* __aexit__ up to its await
aexit(c) ==
    /\ ctl[c].pc = "body"
    /\ ctl' = [ctl EXCEPT ![c].pc = "exiting", ![c].running = FALSE,
                          ![c].exitAt = now]
    /\ task' = IF ctl[c].hasTask /\ task[c].tpc # "done"
               THEN [task EXCEPT ![c].mustCancel = TRUE]
               ELSE task
    /\ Log(c, Mark("exit_begin"))
    /\ UNCHANGED <<objs, now>>
    /\ UNCHANGED iterVars

\* variant: every exception of the task is discarded
aexit_return_swallow(c) ==
    /\ ctl[c].pc = "exiting"
    /\ task[c].tpc = "done"
    /\ ctl' = [ctl EXCEPT ![c].pc = "closed", ![c].hasTask = FALSE]
    /\ Log(c, Mark("exit_return"))
    /\ UNCHANGED <<task, objs, now>>
    /\ UNCHANGED iterVars

\* __aexit__ from the completion of `await self._task`
aexit_return(c) ==
    /\ ctl[c].pc = "exiting"
    /\ task[c].tpc = "done"
    /\ IF task[c].result \in {"ok", "cancelled"}
       THEN /\ ctl' = [ctl EXCEPT ![c].pc = "closed", ![c].hasTask = FALSE]
            /\ Log(c, Mark("exit_return"))
       ELSE /\ ctl' = [ctl EXCEPT ![c].pc = "raised"]
            /\ Log(c, Ev("exit_raise", task[c].result, NoProgress, "none", 0))
    /\ UNCHANGED <<task, objs, now>>
    /\ UNCHANGED iterVars

\* the scope owner is suspended, so the event loop may step the task
Suspended(c) == ctl[c].pc \in {"holding", "exiting"}

Periodic(c, lat) ==
    Ev("periodic", ctl[c].kind, objs[ctl[c].action], ctl[c].chat, lat)

Finish(c, res) ==
    task' = [task EXCEPT ![c] = [NoTask EXCEPT !.tpc = "done", !.result = res]]

\* one turn of `while self._running:` up to the first await
LoopTurn(c, lat) ==
    IF ctl[c].running
    THEN /\ task' = [task EXCEPT ![c].tpc = "call", ![c].at = now + lat]
         /\ Log(c, Periodic(c, lat))
    ELSE /\ Finish(c, "ok")
         /\ UNCHANGED hist

\* variant: a cancellation before the first step reaches the handler
update_start_handled(c, lat) ==
    /\ Suspended(c)
    /\ task[c].tpc = "pending"
    /\ IF task[c].mustCancel
       THEN IF ctl[c].auto_cancel
            THEN /\ task' = [task EXCEPT ![c].tpc = "cancelcall",
                                         ![c].mustCancel = FALSE,
                                         ![c].at = now + lat]
                 /\ Log(c, Ev("cancel", "Cancel", NoProgress, ctl[c].chat, lat))
            ELSE /\ Finish(c, "ok")
                 /\ UNCHANGED hist
       ELSE LoopTurn(c, lat)
    /\ UNCHANGED <<ctl, objs, now>>
    /\ UNCHANGED iterVars

\* first step of the task
update_start(c, lat) ==
    /\ Suspended(c)
    /\ task[c].tpc = "pending"
    /\ IF task[c].mustCancel
       THEN \* CancelledError is thrown into a coroutine that has not
            \* entered its try block
            /\ Finish(c, "cancelled")
            /\ UNCHANGED hist
       ELSE LoopTurn(c, lat)
    /\ UNCHANGED <<ctl, objs, now>>
    /\ UNCHANGED iterVars

\* variant: ConnectionError is not caught
update_call_done_raise(c, outcome) ==
    /\ Suspended(c)
    /\ task[c].tpc = "call"
    /\ ~task[c].mustCancel
    /\ now >= task[c].at
    /\ IF outcome = "ok"
       THEN task' = [task EXCEPT ![c].tpc = "sleep",
                                 ![c].at = now + ctl[c].delay]
       ELSE Finish(c, outcome)
    /\ Log(c, Ev("resp", outcome, NoProgress, "none", 0))
    /\ UNCHANGED <<ctl, objs, now>>
    /\ UNCHANGED iterVars

\* `await self._client(self._request)` completes
update_call_done(c, outcome) ==
    /\ Suspended(c)
    /\ task[c].tpc = "call"
    /\ ~task[c].mustCancel
    /\ now >= task[c].at
    /\ CASE outcome = "ok" ->
              task' = [task EXCEPT ![c].tpc = "sleep",
                                   ![c].at = now + ctl[c].delay]
         [] outcome = "ConnectionError" -> Finish(c, "ok")
         [] OTHER -> Finish(c, outcome)
    /\ Log(c, Ev("resp", outcome, NoProgress, "none", 0))
    /\ UNCHANGED <<ctl, objs, now>>
    /\ UNCHANGED iterVars

\* `await asyncio.sleep(self._delay)` completes
update_sleep_done(c, lat) ==
    /\ Suspended(c)
    /\ task[c].tpc = "sleep"
    /\ ~task[c].mustCancel
    /\ now >= task[c].at
    /\ LoopTurn(c, lat)
    /\ UNCHANGED <<ctl, objs, now>>
    /\ UNCHANGED iterVars

\* CancelledError is delivered at the await the task is suspended in
update_cancelled(c, lat) ==
    /\ Suspended(c)
    /\ task[c].tpc \in {"call", "sleep"}
    /\ task[c].mustCancel
    /\ IF ctl[c].auto_cancel
       THEN /\ task' = [task EXCEPT ![c].tpc = "cancelcall",
                                    ![c].mustCancel = FALSE,
                                    ![c].at = now + lat]
            /\ Log(c, Ev("cancel", "Cancel", NoProgress, ctl[c].chat, lat))
       ELSE /\ Finish(c, "ok")
            /\ UNCHANGED hist
    /\ UNCHANGED <<ctl, objs, now>>
    /\ UNCHANGED iterVars

\* the call made in the CancelledError handler completes
update_cancel_done(c, outcome) ==
    /\ Suspended(c)
    /\ task[c].tpc = "cancelcall"
    /\ now >= task[c].at
    /\ Finish(c, outcome)
    /\ UNCHANGED <<ctl, objs, hist, now>>
    /\ UNCHANGED iterVars

\* ------------------------------------------------------------------------
\* The event loop's clock: time passes only when nothing is ready to run
\* ------------------------------------------------------------------------
Ready(c) ==
    \/ ctl[c].pc = "body"
    \/ ctl[c].pc = "holding" /\ now >= ctl[c].holdUntil
    \/ ctl[c].pc = "exiting" /\ task[c].tpc = "done"
    \/ /\ Suspended(c)
       /\ \/ task[c].tpc = "pending"
          \/ task[c].tpc \in {"call", "sleep"} /\ task[c].mustCancel
          \/ task[c].tpc \in {"call", "sleep", "cancelcall"} /\ now >= task[c].at

Tick(maxTime) ==
    /\ now < maxTime
    /\ \A c \in Ctls : ~Ready(c)
    /\ \E c \in Ctls : ctl[c].pc \in {"holding", "exiting"}
    /\ now' = now + 1
    /\ UNCHANGED <<ctl, task, objs, hist>>
    /\ UNCHANGED iterVars

Outcomes == {"ok", "ConnectionError", "RPCError"}

\* what one controller's scope owner and task can do
Step(c, Ents, Args, Delays, Autos, Lats, Holds, Outs) ==
    \/ \E e \in Ents, a \in Args, d \in Delays, ac \in Autos :
          action(c, e, a, d, ac)
    \/ aenter(c)
    \/ \E h \in Holds : hold(c, h)
    \/ resume(c)
    \/ aexit(c)
    \/ aexit_return(c)
    \/ \E lat \in Lats : update_start(c, lat)
    \/ \E o \in Outs : update_call_done(c, o)
    \/ \E lat \in Lats : update_sleep_done(c, lat)
    \/ \E lat \in Lats : update_cancelled(c, lat)
    \/ \E o \in Outs : update_cancel_done(c, o)

\* One controller, every argument, timing and outcome of the calls
Next ==
    \/ Step(1, Entities, ActionArgs, 1..MaxDelay, BOOLEAN,
            0..MaxLatency, 0..MaxHold, Outcomes)
    \/ Tick(MaxTime)

Spec == InitAction /\ [][Next]_vars

\* Two controllers with progress reports, on a service that answers at once
ShareArgs ==
    {a \in ActionArgs :
        \/ a.py = "str" /\ a.val \in {"document", "file", "typing"}}

NextShare ==
    \/ \E c \in Ctls : Step(c, {"chat"}, ShareArgs, {1}, {TRUE}, {0}, {1}, {"ok"})
    \/ \E c \in Ctls, tot \in 1..MaxTotal :
          \E cur \in 0..tot : progress(c, cur, tot)
    \/ Tick(ShareTime)

SpecShare == InitAction /\ [][NextShare]_vars


\* ------------------------------------------------------------------------
\* Users, strings and the service behind GetParticipantsRequest
\* ------------------------------------------------------------------------
MaxMembers == 6

MAX_PARTICIPANTS_CHUNK_SIZE == 200

\* float('inf'), the limit of an enumeration created with limit=None
Infinity == 1000000

Min(a, b) == IF a <= b THEN a ELSE b
Max(a, b) == IF a >= b THEN a ELSE b

\* str.lower(), character by character
LowerCh(ch) ==
    CASE ch = "A" -> "a"
      [] ch = "B" -> "b"
      [] ch = "C" -> "c"
      [] OTHER -> ch

LowerStr(str) == [i \in 1..Len(str) |-> LowerCh(str[i])]

\* `sub in str`
Contains(sub, str) ==
    \E i \in 0..(Len(str) - Len(sub)) : SubSeq(str, i + 1, i + Len(sub)) = sub

ascii_lowercase ==
    <<"a", "b", "c", "d", "e", "f", "g", "h", "i", "j", "k", "l", "m",
      "n", "o", "p", "q", "r", "s", "t", "u", "v", "w", "x", "y", "z">>

\* The users the service knows: display name, username (<<>> when the user
\* has none) and whether the user is an administrator of the group.
UserDir ==
    <<[name |-> <<"A", "b">>, username |-> <<>>, admin |-> TRUE],
      [name |-> <<"b">>, username |-> <<"A">>, admin |-> FALSE],
      [name |-> <<"C">>, username |-> <<>>, admin |-> FALSE],
      [name |-> <<"b", "a">>, username |-> <<"c">>, admin |-> TRUE],
      [name |-> <<"a">>, username |-> <<"B", "c">>, admin |-> FALSE],
      [name |-> <<"c", "c">>, username |-> <<"b">>, admin |-> FALSE],
      [name |-> <<"B">>, username |-> <<>>, admin |-> FALSE],
      [name |-> <<"a", "C">>, username |-> <<"a">>, admin |-> TRUE]>>

\* the group of env.n members
Members(n) == [i \in 1..n |-> i]

\* the filter the service applies: [kind, q]
NoFilter == [kind |-> "none", q |-> <<>>]
Search(q) == [kind |-> "search", q |-> q]
Admins == [kind |-> "admins", q |-> <<>>]

ServiceMatch(f, u) ==
    CASE f.kind = "admins" -> UserDir[u].admin
      [] f.kind = "search" ->
            \/ Contains(LowerStr(f.q), LowerStr(UserDir[u].name))
            \/ Contains(LowerStr(f.q), LowerStr(UserDir[u].username))
      [] OTHER -> TRUE

Matching(f, n) == SelectSeq(Members(n), LAMBDA u : ServiceMatch(f, u))

\* answer to one GetParticipantsRequest: the page [offset, offset + limit)
\* of the members that match the request's filter, cut to the env.page
\* members the service is willing to return at once
Respond(req, n) ==
    LET m == Matching(req.filter, n)
    IN  SubSeq(m, req.offset + 1,
               Min(req.offset + Min(req.limit, env.page), Len(m)))

\* ------------------------------------------------------------------------
\* _ParticipantsIter._init
\* ------------------------------------------------------------------------
\* what iter_participants is given as `filter`, and lines 103-111
FilterArgs == {"none", "type:admins", "type:search", "search:b"}

NormFilter(f) ==
    CASE f = "type:admins" -> Admins
      [] f = "type:search" -> Search(<<>>)
      [] f = "search:b" -> Search(<<"b">>)
      [] OTHER -> NoFilter

Truthy(f) == f.kind # "none"

\* self.filter_entity(ent): "true", "false", or "error" when .lower() is
\* called on None
filter_entity(r, u) ==
    IF ~r.hasPred THEN "true"
    ELSE IF Contains(r.search, LowerStr(UserDir[u].name)) THEN "true"
    ELSE IF UserDir[u].username = <<>> THEN "error"
    ELSE IF Contains(r.search, LowerStr(UserDir[u].username)) THEN "true"
    ELSE "false"

\* the body of the loops over participants: acc is [buf, seen, err]
Keep(r, acc, u, dedup) ==
    IF acc.err THEN acc
    ELSE LET f == filter_entity(r, u) IN
         IF f = "error" THEN [acc EXCEPT !.err = TRUE]
         ELSE IF f = "false" \/ (dedup /\ u \in acc.seen) THEN acc
         ELSE [buf |-> Append(acc.buf, u),
               seen |-> IF dedup THEN acc.seen \cup {u} ELSE acc.seen,
               err |-> FALSE]

RECURSIVE Scan(_, _, _, _, _)
Scan(r, acc, users, i, dedup) ==
    IF i > Len(users) THEN acc
    ELSE Scan(r, Keep(r, acc, users[i], dedup), users, i + 1, dedup)

Request(f) ==
    [filter |-> f, offset |-> 0, limit |-> MAX_PARTICIPANTS_CHUNK_SIZE]

\* lines 138-153
InitRequests(e) ==
    IF e.aggressive /\ ~Truthy(NormFilter(e.filter))
    THEN LET syms == IF e.search # <<>> THEN e.search ELSE ascii_lowercase
         IN  [i \in 1..Len(syms) |-> Request(Search(<<syms[i]>>))]
    ELSE <<Request(IF Truthy(NormFilter(e.filter))
                   THEN NormFilter(e.filter) ELSE Search(e.search))>>

Call(name, batch) == [call |-> name, batch |-> batch]

\* the user a single-target enumeration is run on
TargetUser(e) == e.n + 1

\* variant: only a negative limit ends the large-group branch early
LimitSpent_negative(r) == r.limit < 0

\* line 134
LimitSpent(r) == r.limit <= 0

\* first step of the enumeration: _init, whose True marks it exhausted
init ==
    /\ it.pc = "new"
    /\ env.kind # "adminlog"
    /\ LET filter == NormFilter(env.filter)
           pred == env.search # <<>> /\ (Truthy(filter) \/ env.kind # "channel")
           r == [it EXCEPT !.buffer = <<>>,
                           !.hasPred = pred,
                           !.search = IF pred THEN LowerStr(env.search) ELSE <<>>]
           start == [buf |-> <<>>, seen |-> {}, err |-> FALSE]
       IN
       CASE env.kind = "unresolvable" ->
              /\ it' = [it EXCEPT !.pc = "error"]
              /\ UNCHANGED wire
         [] env.kind = "channel" ->
              /\ wire' = Append(wire, Call("GetFullChannel", <<>>))
              /\ IF LimitSpent(it)
                 THEN it' = [r EXCEPT !.pc = "done", !.total = env.n]
                 ELSE it' = [r EXCEPT !.pc = "ready", !.total = env.n,
                                      !.requests = InitRequests(env)]
         [] env.kind = "chat_forbidden" ->
              /\ wire' = Append(wire, Call("GetFullChat", <<>>))
              /\ it' = [r EXCEPT !.pc = "done", !.total = 0]
         [] env.kind = "chat" ->
              LET acc == Scan(r, start, Members(env.n), 1, FALSE) IN
              /\ wire' = Append(wire, Call("GetFullChat", <<>>))
              /\ it' = IF acc.err
                       THEN [r EXCEPT !.pc = "error", !.total = env.n]
                       ELSE [r EXCEPT !.pc = "ready", !.total = env.n,
                                      !.buffer = acc.buf,
                                      !.exhausted = TRUE]
         [] OTHER ->
              IF it.limit # 0
              THEN LET acc == Keep(r, start, TargetUser(env), FALSE) IN
                   /\ wire' = Append(wire, Call("GetEntity", <<>>))
                   /\ it' = IF acc.err
                            THEN [r EXCEPT !.pc = "error", !.total = 1]
                            ELSE [r EXCEPT !.pc = "ready", !.total = 1,
                                           !.buffer = acc.buf,
                                           !.exhausted = TRUE]
              ELSE /\ it' = [r EXCEPT !.pc = "ready", !.total = 1,
                                      !.exhausted = TRUE]
                   /\ UNCHANGED wire
    /\ UNCHANGED <<env, out>>
    /\ UNCHANGED ctlVars

\* ------------------------------------------------------------------------
\* _ParticipantsIter._load_next_chunk
\* ------------------------------------------------------------------------
\* variant: a request whose answer was empty stays in the list
RemoveAt_keep(seq, i) == seq

\* line 205: self.requests.pop(i)
RemoveAt(seq, i) == SubSeq(seq, 1, i - 1) \o SubSeq(seq, i + 1, Len(seq))

\* variant: the first request keeps the limit it was built with
ClampFirst_none(r) == r.requests

\* lines 197-198
ClampFirst(r) ==
    [r.requests EXCEPT ![1].limit =
        Min(r.limit - r.requests[1].offset, MAX_PARTICIPANTS_CHUNK_SIZE)]

\* variant: users already seen are appended again
Dedup_off(r) == FALSE

\* line 214: is `user.id in self.seen` consulted
Dedup(r) == TRUE

\* variant: every offset is advanced by the size of the first response
Advance_first(reqs, i, results) ==
    [reqs EXCEPT ![i].offset = @ + Len(results[1])]

\* line 209
Advance(reqs, i, results) ==
    [reqs EXCEPT ![i].offset = @ + Len(results[i])]

\* `for i in reversed(range(len(self.requests)))`
RECURSIVE Fold(_, _, _, _, _)
Fold(r, i, reqs, acc, results) ==
    IF i = 0 \/ acc.err THEN [requests |-> reqs, acc |-> acc]
    ELSE IF results[i] = <<>>
    THEN Fold(r, i - 1, RemoveAt(reqs, i), acc, results)
    ELSE Fold(r, i - 1, Advance(reqs, i, results),
              Scan(r, acc, results[i], 1, Dedup(r)), results)

\* variant: an offset equal to the limit already counts as past it
OffsetPast_reached(r, reqs) == reqs[1].offset >= r.limit

\* lines 194-195
OffsetPast(r, reqs) == reqs[1].offset > r.limit

\* the result of one call: the iterator afterwards, the batch that was sent
\* (<<>> when none), whether True was returned, whether an error was raised
load_next_chunk(r, n) ==
    IF r.requests = <<>>
    THEN [it |-> r, sent |-> <<>>, ret |-> TRUE, err |-> FALSE]
    ELSE LET reqs == ClampFirst(r) IN
         IF OffsetPast(r, reqs)
         THEN [it |-> [r EXCEPT !.requests = reqs],
               sent |-> <<>>, ret |-> TRUE, err |-> FALSE]
         ELSE LET results == [i \in 1..Len(reqs) |-> Respond(reqs[i], n)]
                  f == Fold(r, Len(reqs), reqs,
                            [buf |-> r.buffer, seen |-> r.seen, err |-> FALSE],
                            results)
              IN  [it |-> [r EXCEPT !.requests = f.requests,
                                    !.buffer = f.acc.buf,
                                    !.seen = f.acc.seen],
                   sent |-> reqs, ret |-> FALSE, err |-> f.acc.err]

\* ------------------------------------------------------------------------
\* RequestIter: the engine that drives _init and _load_next_chunk
\* ------------------------------------------------------------------------
\* RequestIter.__init__
NewIter(limit) ==
    LET l == IF limit.none THEN Infinity ELSE Max(limit.n, 0)
    IN  [NoIter EXCEPT !.pc = "new", !.limit = l, !.left = l]

\* next() with nothing left to give: the limit is reached, or the buffer
\* is drained and the strategy has signalled exhaustion
anext_stop ==
    /\ it.pc = "ready"
    /\ it.left <= 0 \/ (it.index = Len(it.buffer) /\ it.exhausted)
    /\ it' = [it EXCEPT !.pc = "done"]
    /\ UNCHANGED <<env, wire, out>>
    /\ UNCHANGED ctlVars

\* variant: the buffer is served without regard to the remaining count
anext_buffered_unbounded ==
    /\ it.pc = "ready"
    /\ it.index < Len(it.buffer)
    /\ out' = Append(out, it.buffer[it.index + 1])
    /\ it' = [it EXCEPT !.left = @ - 1, !.index = @ + 1]
    /\ UNCHANGED <<env, wire>>
    /\ UNCHANGED ctlVars

\* next() served from the buffer
anext_buffered ==
    /\ it.pc = "ready"
    /\ it.left > 0
    /\ it.index < Len(it.buffer)
    /\ out' = Append(out, it.buffer[it.index + 1])
    /\ it' = [it EXCEPT !.left = @ - 1, !.index = @ + 1]
    /\ UNCHANGED <<env, wire>>
    /\ UNCHANGED ctlVars

\* the buffer is drained and more is wanted: load the next chunk
anext_load ==
    /\ it.pc = "ready"
    /\ env.kind # "adminlog"
    /\ it.left > 0
    /\ it.index = Len(it.buffer)
    /\ ~it.exhausted
    /\ LET l == load_next_chunk([it EXCEPT !.index = 0, !.buffer = <<>>], env.n)
       IN  /\ wire' = IF l.sent = <<>> THEN wire
                      ELSE Append(wire, Call("GetParticipants", l.sent))
           /\ it' = IF l.err THEN [l.it EXCEPT !.pc = "error"]
                    ELSE [l.it EXCEPT !.exhausted = l.ret]
    /\ UNCHANGED <<env, out>>
    /\ UNCHANGED ctlVars

\* arguments of iter_participants
LimitArgs ==
    {[none |-> TRUE, n |-> 0]} \cup {[none |-> FALSE, n |-> k] : k \in {-1, 0, 1, 2, 5}}

SearchArgs ==
    {<<>>, <<"a">>, <<"B">>, <<"a", "b">>, <<"b", "b">>, <<"c", "b">>}

EnvArgs ==
    [kind : {"channel", "chat", "chat_forbidden", "user", "unresolvable"},
     n : 0..MaxMembers, limit : LimitArgs, search : SearchArgs,
     filter : FilterArgs, aggressive : BOOLEAN,
     page : {MAX_PARTICIPANTS_CHUNK_SIZE}]

InitPart ==
    /\ InitCtl
    /\ env \in EnvArgs
    /\ it = NewIter(env.limit)
    /\ wire = <<>>
    /\ out = <<>>

NextPart ==
    \/ init
    \/ anext_stop
    \/ anext_buffered
    \/ anext_load

SpecPart == InitPart /\ [][NextPart]_vars

\* Large groups on a service that returns at most 1 or 2 members at once,
\* so that a group is read over many batched calls, enumerated by a caller
\* that keeps asking for the next item
PageSizes == {1, 2}

\* the enumerations of at most MaxShards descriptors; the 26 descriptors of
\* an aggressive enumeration without search are left to SpecPart
MaxShards == 2

LiveArgs ==
    {e \in [kind : {"channel"}, n : 0..MaxMembers,
            limit : {l \in LimitArgs : l.none \/ l.n \in {0, 2, 5}},
            search : {<<>>, <<"a">>, <<"a", "b">>, <<"c", "b">>},
            filter : {"none", "search:b"}, aggressive : BOOLEAN,
            page : PageSizes] :
        Len(InitRequests(e)) <= MaxShards}

\* iter_participants(...): the enumeration is created
iter_participants ==
    /\ it.pc = "idle"
    /\ env' \in LiveArgs
    /\ it' = NewIter(env'.limit)
    /\ UNCHANGED <<wire, out>>
    /\ UNCHANGED ctlVars

NextPartLive ==
    \/ iter_participants
    \/ NextPart

SpecPartLive == InitAction /\ [][NextPartLive]_vars /\ WF_vars(NextPartLive)

\* ------------------------------------------------------------------------
\* _AdminLogIter: the audit-log enumeration
\* ------------------------------------------------------------------------
MAX_ADMIN_LOG_CHUNK_SIZE == 100

\* bounds of the audit-log runs
MaxEvents == 205
MaxFlagsSet == 2

\* the category arguments of iter_admin_log, lines 349-357
CallerFlags ==
    {"join", "leave", "invite", "restrict", "unrestrict", "ban", "unban",
     "promote", "demote", "info", "settings", "pinned", "edit", "delete"}

\* the caller's argument that is passed as a field of the filter, lines 231-235
PassedAs(n) ==
    CASE n = "ban" -> "restrict"
      [] n = "unban" -> "unrestrict"
      [] n = "kick" -> "ban"
      [] n = "unkick" -> "unban"
      [] OTHER -> n

\* variant: a filter is built as soon as one argument is not None
AnyFlag_set(flags) == \E n \in CallerFlags : flags[n] # "None"

\* line 229: any((join, leave, ...))
AnyFlag(flags) == \E n \in CallerFlags : flags[n] = "True"

\* variant: every field is passed the argument of its own name
EventsFilter_samename(flags) ==
    IF AnyFlag(flags)
    THEN [built |-> TRUE, flags |-> [n \in ServiceFlags |->
             IF n \in CallerFlags THEN flags[n] ELSE "None"]]
    ELSE NoEventsFilter

\* lines 229-238
EventsFilter(flags) ==
    IF AnyFlag(flags)
    THEN [built |-> TRUE, flags |-> [n \in ServiceFlags |-> flags[PassedAs(n)]]]
    ELSE NoEventsFilter

\* the events of the log: ids 1..n, the category of each
EventKinds ==
    <<"ban", "kick", "join", "unban", "unkick", "leave", "invite", "promote",
      "demote", "info", "settings", "pinned", "edit", "delete">>

EventKind(id) == EventKinds[((id - 1) % Len(EventKinds)) + 1]

\* ids n, n-1, .., 1
Newest(n) == [i \in 1..n |-> n + 1 - i]

\* a flag of the filter reaches the service set only when it is True
Enabled(f, kind) == ~f.built \/ f.flags[kind] = "True"

\* answer to one GetAdminLogRequest: the newest `limit` events with
\* min_id < id, id < max_id unless max_id is 0, of an enabled category
RespondLog(req, n) ==
    LET m == SelectSeq(Newest(n), LAMBDA id :
                 /\ id > req.min_id
                 /\ req.max_id = 0 \/ id < req.max_id
                 /\ Enabled(req.events_filter, EventKind(id)))
    IN  SubSeq(m, 1, Min(req.limit, Len(m)))

\* lines 250-253
GetAdminLogRequest(e) ==
    [q |-> e.search, min_id |-> e.min_id, max_id |-> e.max_id, limit |-> 0,
     events_filter |-> EventsFilter(e.flags),
     admins |-> IF e.admins = "none" THEN "None" ELSE "list", built |-> TRUE]

\* the first step of the enumeration: _AdminLogIter._init
log_init ==
    /\ it.pc = "new"
    /\ env.kind = "adminlog"
    /\ IF env.target = "unresolvable" \/ env.admins = "unresolvable"
       THEN it' = [it EXCEPT !.pc = "error"]
       ELSE it' = [it EXCEPT !.pc = "ready", !.buffer = <<>>,
                             !.request = GetAdminLogRequest(env)]
    /\ UNCHANGED <<env, wire, out>>
    /\ UNCHANGED ctlVars

\* variant: the placeholder limit of the request is sent as it is
ChunkLimit_placeholder(r) == r.request.limit

\* line 256
ChunkLimit(r) == Min(r.left, MAX_ADMIN_LOG_CHUNK_SIZE)

\* line 261: min((e.id for e in r.events), default=0)
MinId(events) == IF events = <<>> THEN 0 ELSE events[Len(events)]

\* variant: a batch as large as the limit requested ends the enumeration too
ShortBatch_full(events, req) == Len(events) <= req.limit

\* lines 278-279
ShortBatch(events, req) == Len(events) < req.limit

\* variant: an empty batch does not end the enumeration
admin_load_next_chunk_goon(r, n) ==
    LET req == [r.request EXCEPT !.limit = ChunkLimit(r)]
        events == RespondLog(req, n)
    IN  [it |-> [r EXCEPT !.request = [req EXCEPT !.max_id = MinId(events)],
                          !.buffer = r.buffer \o events],
         sent |-> req,
         ret |-> events # <<>> /\ ShortBatch(events, req)]

\* _AdminLogIter._load_next_chunk: the iterator afterwards, the request that
\* was sent, whether True was returned
admin_load_next_chunk(r, n) ==
    LET req == [r.request EXCEPT !.limit = ChunkLimit(r)]
        events == RespondLog(req, n)
    IN  [it |-> [r EXCEPT !.request = [req EXCEPT !.max_id = MinId(events)],
                          !.buffer = r.buffer \o events],
         sent |-> req,
         ret |-> ShortBatch(events, req)]

\* the buffer is drained and more is wanted: load the next chunk of the log
log_load ==
    /\ it.pc = "ready"
    /\ env.kind = "adminlog"
    /\ it.left > 0
    /\ it.index = Len(it.buffer)
    /\ ~it.exhausted
    /\ LET l == admin_load_next_chunk([it EXCEPT !.index = 0, !.buffer = <<>>],
                                      env.n)
       IN  /\ wire' = Append(wire, Call("GetAdminLog", <<l.sent>>))
           /\ it' = [l.it EXCEPT !.exhausted = l.ret]
    /\ UNCHANGED <<env, out>>
    /\ UNCHANGED ctlVars

\* arguments of iter_admin_log
NoFlags == [n \in CallerFlags |-> "None"]

FlagArgs ==
    UNION {{[n \in CallerFlags |-> IF n \in S THEN g[n] ELSE "None"] :
               g \in [S -> {"True", "False"}]} :
           S \in {T \in SUBSET CallerFlags : Cardinality(T) <= MaxFlagsSet}}

LogLimitArgs ==
    {[none |-> TRUE, n |-> 0]} \cup
    {[none |-> FALSE, n |-> k] : k \in {-1, 0, 1, 2, 100, 150}}

\* runs that vary the category arguments over a short log
FlagRuns ==
    [kind : {"adminlog"}, target : {"channel"}, admins : {"none"},
     n : {4}, limit : {[none |-> TRUE, n |-> 0]}, search : {<<>>},
     min_id : {0}, max_id : {0}, flags : FlagArgs]

\* runs that vary the length of the log, the limit and the id bounds
PagingRuns ==
    [kind : {"adminlog"}, target : {"channel"}, admins : {"none"},
     n : {0, 2, 100, 200, MaxEvents}, limit : LogLimitArgs, search : {<<>>},
     min_id : {0, 1}, max_id : {0, 2, 150}, flags : {NoFlags}]

\* runs that vary what can be resolved
SetupRuns ==
    [kind : {"adminlog"}, target : {"channel", "unresolvable"},
     admins : {"none", "resolvable", "unresolvable"},
     n : {2}, limit : {[none |-> TRUE, n |-> 0]}, search : {<<>>, <<"a">>},
     min_id : {0}, max_id : {0}, flags : {NoFlags}]

LogArgs == FlagRuns \cup PagingRuns \cup SetupRuns

InitLog ==
    /\ InitCtl
    /\ env \in LogArgs
    /\ it = NewIter(env.limit)
    /\ wire = <<>>
    /\ out = <<>>

NextLog ==
    \/ log_init
    \/ anext_stop
    \/ anext_buffered
    \/ log_load

SpecLog == InitLog /\ [][NextLog]_vars

\* ------------------------------------------------------------------------
\* One controller and one enumeration set up side by side
\* ------------------------------------------------------------------------
\* membership enumerations of targets that can and cannot be resolved
PartSetupRuns ==
    [kind : {"channel", "chat", "user", "unresolvable"}, n : {2},
     limit : {[none |-> TRUE, n |-> 0]}, search : {<<>>, <<"a">>},
     filter : {"none", "type:admins"}, aggressive : BOOLEAN,
     page : {MAX_PARTICIPANTS_CHUNK_SIZE}]

InitSetup ==
    /\ InitCtl
    /\ env \in PartSetupRuns \cup SetupRuns
    /\ it = NewIter(env.limit)
    /\ wire = <<>>
    /\ out = <<>>

NextSetup ==
    \/ Step(1, Entities, ShareArgs, {1}, {TRUE}, {0}, {1}, {"ok"})
    \/ Tick(ShareTime)
    \/ init
    \/ log_init
    \/ anext_stop
    \/ anext_buffered
    \/ anext_load
    \/ log_load

SpecSetup == InitSetup /\ [][NextSetup]_vars

\* ------------------------------------------------------------------------
\* Reading the observation log
\* ------------------------------------------------------------------------
At(c, e) == {i \in 1..Len(hist[c]) : hist[c][i].ev = e}

Exited(c) == ctl[c].pc \in {"closed", "raised"}

\* answers to periodic calls that ended the loop
FailedAt(c) == {i \in At(c, "resp") : hist[c][i].kind # "ok"}

\* when exit began, the task was suspended in a periodic call or in its sleep
LiveAtExit(c) ==
    \E x \in At(c, "exit_begin") :
        /\ \E i \in At(c, "periodic") : i < x
        /\ \A i \in FailedAt(c) : i > x

ExitOrdering(c) ==
    /\ \A x \in At(c, "exit_begin"), i \in At(c, "periodic") : i < x
    /\ \A k \in At(c, "cancel"), i \in At(c, "periodic") : i < k
    /\ \A k \in At(c, "cancel") : \E x \in At(c, "exit_begin") : x < k
    /\ Exited(c) => task[c].tpc = "done"

HeldTwoDelays(c) ==
    /\ Exited(c)
    /\ ctl[c].auto_cancel
    /\ ctl[c].exitAt - ctl[c].enterAt >= 2 * ctl[c].delay

TwoThenCancel(c) ==
    /\ Cardinality(At(c, "periodic")) >= 2
    /\ Cardinality(At(c, "cancel")) = 1

\* every periodic call was answered, without error, in less than one delay
Responsive(c) ==
    /\ FailedAt(c) = {}
    /\ \A i \in At(c, "periodic") : hist[c][i].lat < ctl[c].delay

C3_ConnectionErrorEndsLoopSilently ==
    \A c \in Ctls :
        \A f \in At(c, "resp") :
            hist[c][f].kind = "ConnectionError" =>
                /\ \A i \in At(c, "periodic") : i < f
                /\ ctl[c].pc # "raised"
                /\ At(c, "exit_raise") = {}
                /\ task[c].tpc = "done" /\ task[c].result = "ok"

C3_Witness ==
    \E c \in Ctls :
        /\ ctl[c].pc = "closed"
        /\ \E f \in At(c, "resp") : hist[c][f].kind = "ConnectionError"
        /\ Cardinality(At(c, "periodic")) = 2

\* C4: exit discards only the cancellation of the task; an error other than
\* cancellation or a connectivity failure raised by a periodic call is
\* raised by exit, unchanged.
C4_OnlyCancellationSwallowed ==
    \A c \in Ctls :
        Exited(c) =>
            /\ ctl[c].pc = "closed" <=> task[c].result \in {"ok", "cancelled"}
            /\ \A f \in At(c, "resp") :
                  hist[c][f].kind = "RPCError" =>
                      /\ ctl[c].pc = "raised"
                      /\ \E r \in At(c, "exit_raise") :
                            hist[c][r].kind = "RPCError"

C4_Witness ==
    \E c \in Ctls :
        /\ ctl[c].pc = "raised"
        /\ \E f \in At(c, "resp") : hist[c][f].kind = "RPCError"

\* ------------------------------------------------------------------------
\* Progress reports and the descriptor objects
\* ------------------------------------------------------------------------
\* the periodic call that follows log entry i, if no other report precedes it
NextSend(c, i) ==
    {j \in At(c, "periodic") :
        /\ j > i
        /\ \A k \in At(c, "periodic") \cup At(c, "progress") : ~(i < k /\ k < j)}

\* C5: a progress report on a kind with a progress field stores
\* round(100 * current / total), which the next periodic call transmits; on
\* a kind without the field the descriptor is left as it was.
C5_ProgressIsPercentage ==
    \A c \in Ctls :
        \A i \in At(c, "progress") :
            LET e == hist[c][i] IN
            IF HasProgress(e.kind)
            THEN /\ e.progress = PyRound(100 * e.current, e.total)
                 /\ \A j \in NextSend(c, i) :
                       hist[c][j].progress = PyRound(100 * e.current, e.total)
            ELSE e.progress = NoProgress

\* the value a controller's own scope gave its descriptor before entry j
OwnProgress(c, j) ==
    LET before == {i \in At(c, "progress") : i < j} IN
    IF before = {}
    THEN (IF HasProgress(ctl[c].kind) THEN 1 ELSE NoProgress)
    ELSE hist[c][CHOOSE i \in before : \A k \in before : k <= i].progress

\* C6: every periodic call of a controller transmits the progress value of
\* that controller's own scope: the tag's initial value, or the value last
\* reported on this controller, never a value reported on another one.
C6_DescriptorPerScope ==
    \A c \in Ctls :
        \A j \in At(c, "periodic") : hist[c][j].progress = OwnProgress(c, j)

\* ------------------------------------------------------------------------
\* Validation and resolution of the action argument
\* ------------------------------------------------------------------------
\* C7: an unrecognised string tag, a class, or an object outside the action
\* family is rejected by action(): no call is issued, no target is resolved,
\* and neither a controller nor a task exists; every other argument is
\* accepted.
C7_InvalidActionRejected ==
    \A c \in Ctls :
        LET g == ctl[c].given
            invalid ==
                \/ g.py = "str" /\
                     g.val \notin {"typing", "TYPING", "record-audio",
                                   "document", "Document", "file", "cancel"}
                \/ g.py \in {"type", "object"}
                \/ g.py = "tlobject" /\ g.family # "SendMessageAction"
        IN  ctl[c].pc # "idle" =>
              /\ invalid <=> ctl[c].pc = "rejected"
              /\ ctl[c].pc = "rejected" =>
                    /\ hist[c] = <<>>
                    /\ task[c] = NoTask
                    /\ ctl[c] = [NoCtl EXCEPT !.pc = "rejected", !.given = g]

C7_Witness ==
    \E c \in Ctls :
        /\ ctl[c].pc = "rejected"
        /\ ctl[c].given.py = "type"
        /\ ctl[c].given.family = "SendMessageAction"

\* what a tag resolves to: the kind and the current sub-type (progress)
\* value of the instance stored under it
Resolve(t) == [kind |-> str_mapping_kind[t], subtype |-> objs[t]]

\* C8: every alias resolves to the same kind and sub-type as its canonical
\* tag, and 'cancel' resolves to the Cancel kind, which is sent as one
\* direct call and never held by a controller.
C8_AliasesResolveAlike ==
    /\ Resolve("record-voice") = Resolve("record-audio")
    /\ Resolve("file") = Resolve("document")
    /\ Resolve("song") = Resolve("document")
    /\ Resolve("voice") = Resolve("audio")
    /\ Resolve("cancel").kind = "Cancel"
    /\ \A c \in Ctls :
          /\ ctl[c].kind # "Cancel"
          /\ ctl[c].pc = "direct" =>
                /\ Len(hist[c]) = 1
                /\ hist[c][1].ev = "direct" /\ hist[c][1].kind = "Cancel"
                /\ task[c] = NoTask

\* ------------------------------------------------------------------------
\* Membership enumeration
\* ------------------------------------------------------------------------
Chunks == SelectSeq(wire, LAMBDA w : w.call = "GetParticipants")

NoDuplicates(seq) ==
    \A i, j \in 1..Len(seq) : i # j => seq[i] # seq[j]

\* the local text predicate as the claim words it: a case-insensitive
\* substring match on display name or handle
TextMatch(str, u) ==
    \/ Contains(LowerStr(str), LowerStr(UserDir[u].name))
    \/ /\ UserDir[u].username # <<>>
       /\ Contains(LowerStr(str), LowerStr(UserDir[u].username))

\* C9: whatever the batches answer, also when the shards of an aggressive
\* enumeration overlap, no two items buffered or produced carry the same
\* user id, and when a local text predicate was established every such
\* item satisfies it.
C9_NoDuplicatesAndPredicate ==
    /\ NoDuplicates(out)
    /\ it.pc \in {"ready", "done"} =>
          /\ NoDuplicates(it.buffer)
          /\ \A i \in 1..Len(it.buffer) : it.buffer[i] \in it.seen \/ env.kind # "channel"
    /\ it.hasPred =>
          /\ \A i \in 1..Len(out) : TextMatch(env.search, out[i])
          /\ it.pc \in {"ready", "done"} =>
                \A i \in 1..Len(it.buffer) : TextMatch(env.search, it.buffer[i])

\* an aggressive enumeration over two shards that both contain one user
C9_Witness ==
    /\ env.kind = "channel" /\ env.aggressive /\ env.filter = "none"
    /\ env.search = <<"a", "b">>
    /\ it.pc = "done"
    /\ Len(Chunks) >= 1 /\ Len(Chunks[1].batch) = 2
    /\ \E i \in 1..Len(out) :
          /\ ServiceMatch(Search(<<"a">>), out[i])
          /\ ServiceMatch(Search(<<"b">>), out[i])
    /\ Len(out) >= 4

\* the scenario of C10
LimitFive ==
    /\ env.kind = "channel"
    /\ env.limit = [none |-> FALSE, n |-> 5]
    /\ env.filter = "none"
    /\ ~env.aggressive

\* members the single request of the scenario selects
Selected == Matching(Search(env.search), env.n)

FirstChunkIsFiveAtZero ==
    Chunks # <<>> =>
        Chunks[1].batch = <<[filter |-> Search(env.search), offset |-> 0, limit |-> 5]>>

\* C10 as stated: with limit=5, no filter and aggressive=false exactly one
\* chunk request is issued, with limit=5 and offset=0, and 5 items are
\* produced, or all members when the group has fewer than 5.
C10_OneChunkOnly ==
    LimitFive =>
        /\ FirstChunkIsFiveAtZero
        /\ Len(Chunks) <= 1
        /\ it.pc = "done" =>
              /\ Len(Chunks) = 1
              /\ Len(out) = Min(5, Len(Selected))

\* C10 amended: the first chunk request carries limit=5 and offset=0 and the
\* items produced are the first 5 members, or all k members when the group
\* has fewer; no second request is issued when k >= 5 or k = 0, but when
\* 1 <= k <= 4 a drained enumeration issues a second request with
\* offset=k and limit=5-k, whose empty answer ends it.
C10_SecondChunkWhenShort ==
    LimitFive =>
        LET k == Len(Selected)
            short == 1 <= k /\ k <= 4
        IN  /\ FirstChunkIsFiveAtZero
            /\ Len(Chunks) <= (IF short THEN 2 ELSE 1)
            /\ Len(Chunks) = 2 =>
                  Chunks[2].batch =
                     <<[filter |-> Search(env.search), offset |-> k, limit |-> 5 - k]>>
            /\ it.pc = "done" =>
                  /\ Len(Chunks) = (IF short THEN 2 ELSE 1)
                  /\ out = SubSeq(Selected, 1, Min(5, k))

C10_Witness ==
    /\ LimitFive
    /\ env.search = <<>>
    /\ env.n = 3
    /\ it.pc = "done"
    /\ Len(Chunks) = 2
    /\ Len(out) = 3

\* a large group asked for with a limit that is not positive
NonPositiveLimit ==
    /\ env.kind = "channel"
    /\ ~env.limit.none
    /\ env.limit.n <= 0

\* C11: for every non-positive limit the membership enumeration of a large
\* group produces nothing, builds no cursor descriptor and performs no
\* remote call other than the full-info fetch that supplies the total.
C11_NonPositiveLimitIsEmpty ==
    NonPositiveLimit =>
        /\ out = <<>>
        /\ it.requests = <<>>
        /\ it.buffer = <<>>
        /\ Chunks = <<>>
        /\ wire \in {<<>>, <<Call("GetFullChannel", <<>>)>>}
        /\ it.pc \in {"new", "done"}
        /\ it.pc = "done" => it.total = env.n

\* a populated large group enumerated with limit 0 has ended after the
\* full-info fetch alone
C11_Witness ==
    /\ NonPositiveLimit
    /\ env.limit.n = 0
    /\ env.n >= 2
    /\ it.pc = "done"
    /\ wire = <<Call("GetFullChannel", <<>>)>>
    /\ out = <<>>

\* the number of items the caller asked for at most
AskedFor == IF env.limit.none THEN Infinity ELSE Max(env.limit.n, 0)

\* C12: for every kind of target and every limit the number of items
\* produced never exceeds the limit; a limit of 0 produces nothing, also
\* for a small group whose full-info response lists members.
C12_NeverMoreThanLimit ==
    /\ Len(out) <= AskedFor
    /\ Len(out) + it.left = it.limit
    /\ (~env.limit.none /\ env.limit.n = 0) => out = <<>>

\* a small group with members, enumerated with limit 0: its members were
\* buffered by the setup and none was produced
C12_Witness ==
    /\ env.kind = "chat"
    /\ env.limit = [none |-> FALSE, n |-> 0]
    /\ env.n >= 2
    /\ env.search = <<>>
    /\ it.pc = "done"
    /\ Len(it.buffer) = env.n
    /\ out = <<>>

\* C13: a large-group enumeration ends, and its strategy signals
\* exhaustion, only when every cursor descriptor has been dropped or the
\* overall limit has been reached: in no reachable state is exhaustion
\* signalled, or the enumeration over, while a descriptor is pending and
\* fewer than limit items have been produced.
C13_EndsOnlyWhenDroppedOrLimit ==
    (env.kind = "channel" /\ (it.exhausted \/ it.pc = "done")) =>
        \/ it.requests = <<>>
        \/ Len(out) >= it.limit

\* the strategy signalled exhaustion after its descriptors were dropped
\* over several chunk requests, with the limit not reached
C13_Witness ==
    /\ env.kind = "channel"
    /\ it.exhausted
    /\ it.pc = "done"
    /\ it.requests = <<>>
    /\ Len(Chunks) >= 2
    /\ Len(out) >= 1
    /\ Len(out) < it.limit

\* users without a handle whose display name does not contain the search
NoHandleNoMatch ==
    {u \in DOMAIN UserDir :
        /\ UserDir[u].username = <<>>
        /\ ~Contains(it.search, LowerStr(UserDir[u].name))}

\* C18: when a local text predicate is established, for every entity with
\* no handle whose display name does not contain the search string the
\* predicate evaluates to false, the entity is skipped, and the enumeration
\* goes on without raising an error.
C18_NoHandleIsSkipped ==
    /\ it.hasPred => \A u \in NoHandleNoMatch : filter_entity(it, u) = "false"
    /\ it.pc = "error" => env.kind = "unresolvable"

\* C20: in every batched membership chunk call each request carries a limit
\* between 0 and 200, never a negative one, also after the first descriptor
\* was dropped and a descriptor with a larger offset took its place; the
\* first request of a batch carries min(limit - offset, 200); and from one
\* batch to the next a descriptor's offset never decreases, advancing by
\* the result count of its own response alone.
C20_RequestLimitsAndOffsets ==
    /\ \A j \in 1..Len(Chunks) :
          LET b == Chunks[j].batch IN
          /\ \A i \in 1..Len(b) :
                /\ 0 <= b[i].limit
                /\ b[i].limit <= MAX_PARTICIPANTS_CHUNK_SIZE
                /\ b[i].offset >= 0
          /\ b[1].limit = Min(it.limit - b[1].offset, MAX_PARTICIPANTS_CHUNK_SIZE)
    /\ \A j \in 1..(Len(Chunks) - 1) :
          LET b == Chunks[j].batch
              c == Chunks[j + 1].batch
          IN  \A i \in 1..Len(c) :
                 \E k \in 1..Len(b) :
                    /\ b[k].filter = c[i].filter
                    /\ Respond(b[k], env.n) # <<>>
                    /\ c[i].offset = b[k].offset + Len(Respond(b[k], env.n))
                    /\ c[i].offset >= b[k].offset

\* the first of two descriptors was dropped on its empty answer and the
\* second, sent unclamped before, leads the next batch with its larger
\* offset and a clamped limit
C20_Witness ==
    /\ env.kind = "channel" /\ env.aggressive /\ env.filter = "none"
    /\ env.search = <<"c", "b">>
    /\ Len(Chunks) >= 2
    /\ Len(Chunks[1].batch) = 2
    /\ Chunks[1].batch[2].limit = MAX_PARTICIPANTS_CHUNK_SIZE
    /\ Len(Chunks[2].batch) = 1
    /\ Chunks[2].batch[1].filter = Search(<<"b">>)
    /\ Chunks[2].batch[1].offset >= 2
    /\ Chunks[2].batch[1].limit = it.limit - Chunks[2].batch[1].offset
    /\ Chunks[2].batch[1].limit < MAX_PARTICIPANTS_CHUNK_SIZE

\* the request of the j-th audit-log chunk call and the batch it was answered
LogRequest(j) == wire[j].batch[1]
LogBatch(j) == RespondLog(LogRequest(j), env.n)

\* a batch was smaller than the limit its request carried
Short(j) == Len(LogBatch(j)) < LogRequest(j).limit

LastShort == wire # <<>> /\ Short(Len(wire))

StrictlyDescending(seq) ==
    \A i \in 1..(Len(seq) - 1) : seq[i] > seq[i + 1]

\* event ids descend within and across the batches, so that none is
\* produced twice, and no request follows a short batch
DescendingBatches ==
    /\ StrictlyDescending(out)
    /\ it.pc \in {"ready", "done"} =>
          /\ StrictlyDescending(it.buffer)
          /\ \A j \in 1..Len(wire) :
                LET b == LogBatch(j) IN
                \A i \in 1..Len(b) :
                   LogRequest(j).max_id = 0 \/ b[i] < LogRequest(j).max_id
          /\ \A j \in 1..(Len(wire) - 1) :
                /\ ~Short(j)
                /\ LogRequest(j + 1).max_id = MinId(LogBatch(j))
    /\ LastShort <=> it.exhausted

\* C14 as stated: against a service that returns only events below the
\* requested max_id, event ids descend across the batches, no event is
\* produced twice, and the enumeration halts exactly when a returned batch
\* is smaller than the limit just requested.
C14_HaltsExactlyOnShortBatch ==
    /\ DescendingBatches
    /\ it.pc = "done" => (LastShort /\ it.index = Len(it.buffer))

\* C14 amended: event ids descend across the batches, no event is produced
\* twice, no request follows a batch smaller than the limit just requested,
\* and the enumeration halts only once such a batch is drained or the
\* caller's limit is reached.
C14_HaltsOnShortBatchOrLimit ==
    /\ DescendingBatches
    /\ it.pc = "done" =>
          \/ LastShort /\ it.index = Len(it.buffer)
          \/ Len(out) >= it.limit

\* a log of more than two full chunks read to its end in three batches
C14_Witness ==
    /\ env.n = MaxEvents /\ env.limit.none
    /\ env.min_id = 0 /\ env.max_id = 0
    /\ it.pc = "done"
    /\ Len(wire) = 3
    /\ ~Short(1) /\ ~Short(2) /\ Short(3)
    /\ Len(out) = env.n

\* the caller's flag that the claim pairs with each flag of the service
CallerOf(n) ==
    IF n = "ban" THEN "restrict"
    ELSE IF n = "kick" THEN "ban"
    ELSE IF n = "unban" THEN "unrestrict"
    ELSE IF n = "unkick" THEN "unban"
    ELSE n

MappedOneToOne(f) ==
    f.built => \A n \in ServiceFlags : f.flags[n] = env.flags[CallerOf(n)]

\* C15: whenever a filter is built, each flag of the service carries the
\* value of exactly one flag of the caller: ban that of restrict (and never
\* that of ban), kick that of ban, unban that of unrestrict, unkick that of
\* unban, and each of the ten others that of the flag of its own name.
C15_CategoryMapping ==
    /\ it.request.built => MappedOneToOne(it.request.events_filter)
    /\ \A j \in 1..Len(wire) : MappedOneToOne(LogRequest(j).events_filter)

\* restrict alone was asked for: the request carries ban and not kick, and
\* of the four events of the log only the ban was produced
C15_Witness ==
    /\ env.flags = [NoFlags EXCEPT !["restrict"] = "True"]
    /\ it.pc = "done"
    /\ Len(wire) = 1
    /\ LogRequest(1).events_filter.flags["ban"] = "True"
    /\ LogRequest(1).events_filter.flags["kick"] = "None"
    /\ env.n = 4
    /\ Len(out) = 1 /\ EventKind(out[1]) = "ban"

\* the flags of the service a built filter enables
EnabledFlags(f) == {n \in ServiceFlags : f.flags[n] = "True"}

\* the flags of the service whose caller flag was set to True
AskedFlags == {n \in ServiceFlags : env.flags[CallerOf(n)] = "True"}

ExactlyTheTrueFlags(f) == f.built => EnabledFlags(f) = AskedFlags

\* C16 as stated: a filter is built whenever at least one flag is explicitly
\* set, to true or to false, and it enables exactly the flags set to true;
\* only when no flag is set at all is no filter sent.
C16_FilterWheneverSet ==
    it.request.built =>
        /\ it.request.events_filter.built <=>
              (\E n \in CallerFlags : env.flags[n] # "None")
        /\ ExactlyTheTrueFlags(it.request.events_filter)

\* C16 amended: a filter is built whenever at least one flag is set to
\* true, and it enables exactly the flags set to true; when no flag is
\* true, whether unset or set to false, no filter is sent and events of
\* every category are returned.
C16_FilterWheneverTrue ==
    /\ it.request.built =>
          /\ it.request.events_filter.built <=>
                (\E n \in CallerFlags : env.flags[n] = "True")
          /\ ExactlyTheTrueFlags(it.request.events_filter)
    /\ \A j \in 1..Len(wire) :
          /\ LogRequest(j).events_filter = it.request.events_filter
          /\ ~LogRequest(j).events_filter.built =>
                LogBatch(j) = RespondLog([LogRequest(j) EXCEPT
                                 !.events_filter = NoEventsFilter], env.n)

\* join=False alone was passed: no filter was sent and the join event of
\* the log was produced with the three others
C16_Witness ==
    /\ env.flags = [NoFlags EXCEPT !["join"] = "False"]
    /\ env.n = 4
    /\ it.pc = "done"
    /\ Len(wire) = 1
    /\ ~LogRequest(1).events_filter.built
    /\ Len(out) = 4
    /\ \E i \in 1..Len(out) : EventKind(out[i]) = "join"

\* the number of events the first j batches held
RECURSIVE Buffered(_)
Buffered(j) == IF j = 0 THEN 0 ELSE Buffered(j - 1) + Len(LogBatch(j))

\* C19: every audit-log chunk request carries the limit min(remaining, 100),
\* a value between 1 and 100 and never the placeholder 0 the request was
\* built with, and against a service that returns at most the requested
\* number of events the events buffered in all never exceed the caller's
\* limit.
C19_ChunkLimitAndTotal ==
    /\ \A j \in 1..Len(wire) :
          /\ LogRequest(j).limit =
                Min(it.limit - Buffered(j - 1), MAX_ADMIN_LOG_CHUNK_SIZE)
          /\ 1 <= LogRequest(j).limit
          /\ LogRequest(j).limit <= MAX_ADMIN_LOG_CHUNK_SIZE
    /\ Buffered(Len(wire)) <= it.limit
    /\ Len(out) + it.left = it.limit

\* a limit of 150 over a longer log: a request of 100 and one of 50
C19_Witness ==
    /\ env.limit = [none |-> FALSE, n |-> 150]
    /\ env.n >= 200
    /\ env.max_id = 0
    /\ it.pc = "done"
    /\ Len(wire) = 2
    /\ LogRequest(1).limit = 100
    /\ LogRequest(2).limit = 50
    /\ Buffered(2) = 150
    /\ Len(out) = 150

\* what could not be resolved
BadChat(c) == ctl[c].chat \in Entities /\ ~Resolvable(ctl[c].chat)
BadTarget ==
    \/ env.kind = "unresolvable"
    \/ env.kind = "adminlog" /\ env.target = "unresolvable"
BadActor == env.kind = "adminlog" /\ env.admins = "unresolvable"

\* C17: when the target of a controller or of an enumeration, or an actor
\* of an audit-log enumeration, cannot be resolved, the error reaches the
\* caller and the setup is over before any periodic call, chunk request or
\* full-info call: the controller has no background task and has handed
\* nothing to the client, the enumeration has built no cursor descriptor
\* and no request, and nothing is produced.
C17_ResolutionFailureAbortsSetup ==
    /\ \A c \in Ctls : BadChat(c) =>
          /\ ctl[c].pc \in {"created", "enterfail"}
          /\ task[c] = NoTask
          /\ ~ctl[c].hasTask /\ ~ctl[c].running
          /\ hist[c] = <<>>
    /\ (BadTarget \/ BadActor) =>
          /\ it.pc \in {"new", "error"}
          /\ wire = <<>>
          /\ out = <<>>
          /\ it.requests = <<>>
          /\ ~it.request.built

\* the scope of a controller on an unresolvable chat has failed to open and
\* an audit-log enumeration has failed on an unresolvable actor
C17_Witness ==
    /\ ctl[1].pc = "enterfail"
    /\ BadActor /\ ~BadTarget
    /\ it.pc = "error"

\* C21: once an empty batch has reset the cursor's max_id to 0 no further
\* request is issued, so the traversal never starts again from the newest
\* events; a request with max_id = 0 is the first request of an
\* enumeration whose caller passed max_id = 0.
C21_NoRestartAfterEmptyBatch ==
    /\ \A j \in 1..Len(wire) :
          /\ LogBatch(j) = <<>> => j = Len(wire)
          /\ LogRequest(j).max_id = 0 => (j = 1 /\ env.max_id = 0)
    /\ (wire # <<>> /\ it.pc \in {"ready", "done"}) =>
          /\ it.request.max_id = 0 <=> LogBatch(Len(wire)) = <<>>
          /\ it.request.max_id = 0 => it.exhausted

\* a log of exactly two full chunks: the third batch was empty, it reset
\* max_id to 0 and the enumeration ended without a fourth request
C21_Witness ==
    /\ env.n = 200 /\ env.limit.none
    /\ env.min_id = 0 /\ env.max_id = 0
    /\ it.pc = "done"
    /\ Len(wire) = 3
    /\ LogRequest(3).max_id = 1
    /\ LogBatch(3) = <<>>
    /\ it.request.max_id = 0
    /\ Len(out) = 200

\* the enumeration is over, by its end or by an error raised to the caller
Ended == it.pc \in {"done", "error"}

\* nothing more is to be fetched: every descriptor is dropped or the limit
\* is reached
Drained == it.requests = <<>> \/ Len(out) >= it.limit

\* every batched call is answered with a member not returned before for
\* each of its descriptors, or drops one: a group of n members is read in
\* at most n + 1 calls, and an enumeration that has ended normally is
\* drained
FinitelyManyCalls ==
    /\ Len(Chunks) <= env.n + 1
    /\ it.pc = "done" => Drained

\* once drained, no chunk request is issued
NoCallOnceDrained == (it.pc # "new" /\ Drained) => wire' = wire

\* C22: for a large group of finitely many members, on a service that
\* returns at most the requested number of members and nothing past the
\* end of a partition, every membership enumeration, aggressive or not,
\* with a limit or without, eventually ends; it does so after finitely
\* many batched calls, with the descriptor list empty or the limit
\* reached unless an error was raised to the caller, and no chunk request
\* is issued after that.
C22_EnumerationEnds ==
    /\ <>Ended
    /\ []FinitelyManyCalls
    /\ [][NoCallOnceDrained]_vars

\* an aggressive enumeration without limit, on a service that returns one
\* member at a time, has ended after more than three batched calls with
\* every descriptor dropped
C22_Witness ==
    /\ env.kind = "channel" /\ env.aggressive /\ env.filter = "none"
    /\ env.limit.none
    /\ env.page = 1
    /\ env.search = <<"a", "b">>
    /\ it.pc = "done"
    /\ it.requests = <<>>
    /\ Len(Chunks) > 3
    /\ Len(out) >= 4

====
